---- MODULE Spec2Model ----
(***************************************************************************)
(* A model of the hikvision-doorbell bridge: the retry generator           *)
(* (helpers.retry_async_yield), the deduplicating publisher                *)
(* (Doorbell.publish_if_changed) and the cooperative tasks of              *)
(* workers/doorbell.py (lock controller, handle refresh, device-info       *)
(* poller, call-status poller).                                            *)
(*                                                                         *)
(* The specifications share the variables:                                 *)
(*   SpecProbe  one retry generator driven to its end by a consumer, the   *)
(*              wrapped operation's outcome chosen freely per attempt;     *)
(*   SpecDedup  publish_if_changed called with arbitrary topics and        *)
(*              values by overlapping callers;                             *)
(*   Spec       the four tasks of Doorbell.tasks() interleaved at their    *)
(*              suspension points (await of a request, a sleep, a publish, *)
(*              the next inbound message), from the point where the tasks  *)
(*              have been created;                                         *)
(*   SpecLock, SpecDevice, SpecCall                                        *)
(*              the same tasks with only the lock controller, the          *)
(*              device-info poller or the call-status poller served;       *)
(*   SpecOne    the behaviours of SpecLock, SpecDevice and SpecCall        *)
(*              together: one task is served, whichever comes first;       *)
(*   SpecTransport                                                         *)
(*              SpecDevice with a broker that may refuse a publish;        *)
(*   SpecSupervisor                                                        *)
(*              app.lifespan waiting for the tasks and cancelling them at  *)
(*              shutdown, with stop_event;                                 *)
(*   SpecDiscovery                                                         *)
(*              discovery publication at startup, in the current Doorbell  *)
(*              and in the legacy MQTTBridge.                              *)
(***************************************************************************)
EXTENDS Integers, Sequences, FiniteSets, TLC

VARIABLES
    probe,         \* SpecProbe: the generator under test and what its consumer saw
    calls,         \* SpecDedup: the publish_if_changed calls made so far
    state_cache,   \* Doorbell.state_cache: topic -> last value handed to the transport
    inflight,      \* per task: the publish it is awaiting (lines 92-99), or NoPub
    published,     \* per topic: the payloads the broker accepted, in order
    client,        \* Doorbell._client: 0 is None, k > 0 the k-th handle constructed
    device_healthy,        \* Doorbell._device_healthy
    reseted_availability,  \* Doorbell._reseted_availability
    autolocking,   \* settings.DEVICE_AUTOLOCKING
    pc,            \* per task: where it is suspended
    gen,           \* per task: the retry generator its `async for` iterates
    local,         \* locals: open_close_doors' `open` and result, publish_availability's
                   \* argument; `seen`: what each poller's loop body has received so far
    queue,         \* mqtt.messages: inbound messages not yet consumed
    cycle,         \* history of the lock controller's current command cycle
    count,         \* how often each bounded step has happened
    boot           \* discovery publication: app.lifespan with Doorbell.publish_discovery,
                   \* and MQTTBridge.publish_discovery_once

dedupVars == <<state_cache, inflight, published>>
taskVars == <<client, device_healthy, reseted_availability, autolocking, pc, gen,
              local, queue, cycle, count, boot>>
vars == <<probe, calls, state_cache, inflight, published, client, device_healthy,
          reseted_availability, autolocking, pc, gen, local, queue, cycle, count, boot>>

----------------------------------------------------------------------------
(* Bounds *)

\* largest `attempts` argument the probe specification draws
MaxAttempts == 3

\* publish_if_changed calls the dedup specification makes
MaxCalls == 4

\* handles the refresh loop constructs
MaxRefresh == 2

\* inbound messages delivered to the lock controller
MaxMessages == 2

\* polls the device-info loop starts
MaxDevicePolls == 1

\* polls the call-status loop starts
MaxCallPolls == 1

\* polls a poller starts when it is checked without the other poller
MaxPolls == 3

\* calls of discovery publication made on each bridge
MaxDiscoveryCalls == 3

----------------------------------------------------------------------------
(* helpers.retry_async_yield *)

\* Python's None, as yielded for a failed attempt and as returned by an operation
None == "None"

\* the values a wrapped operation may return (non-None)
Values == {"opened", "closed"}

\* exception classes listed in the decorator's `exceptions` argument
TransientErrors == {"ConnectError", "ReadTimeout"}

\* an exception class outside `exceptions`
OtherErrors == {"KeyError"}

\* what one call of the wrapped operation does: return a value, return None,
\* raise a listed exception, raise an unlisted one
Outcomes ==
    [kind : {"value"}, v : Values] \cup
    [kind : {"none"}, v : {None}] \cup
    [kind : {"transient"}, v : TransientErrors] \cup
    [kind : {"other"}, v : OtherErrors]

\* wrapper(): the generator object before its first __anext__.
\* `at` is where the generator is suspended:
\*   start        not started            calling   awaiting func (line 35)
\*   yield_result at line 38             yield_none at line 45
\*   sleeping     in asyncio.sleep (49)  stopped   returned (StopAsyncIteration)
\*   raised       an exception left the generator
\* `out` is what the last step handed to the consumer (a value, None, an exception).
NewGen(attempts, delay, arg) ==
    [attempts |-> attempts, delay |-> delay, arg |-> arg,
     attempt |-> 0, last_exception |-> None, at |-> "start", out |-> None]

\* mutant: the loop runs one attempt too many (range(1, attempts + 2))
GenLoop_OffByOne(g) ==
    IF g.attempt <= g.attempts
    THEN [g EXCEPT !.attempt = g.attempt + 1, !.at = "calling", !.out = None]
    ELSE IF g.last_exception # None
         THEN [g EXCEPT !.at = "raised", !.out = g.last_exception]
         ELSE [g EXCEPT !.at = "stopped", !.out = None]

\* mutant: exhaustion never raises (the `if last_exception` test dropped)
GenLoop_NeverRaises(g) ==
    IF g.attempt < g.attempts
    THEN [g EXCEPT !.attempt = g.attempt + 1, !.at = "calling", !.out = None]
    ELSE [g EXCEPT !.at = "stopped", !.out = None]

\* lines 33-35 and 51-53: the head of `for attempt in range(1, attempts + 1)`;
\* either the next call of func is awaited, or the loop is over and the
\* generator raises last_exception or returns
GenLoop(g) ==
    IF g.attempt < g.attempts
    THEN [g EXCEPT !.attempt = g.attempt + 1, !.at = "calling", !.out = None]
    ELSE IF g.last_exception # None
         THEN [g EXCEPT !.at = "raised", !.out = g.last_exception]
         ELSE [g EXCEPT !.at = "stopped", !.out = None]

\* mutant: the `return` after `yield result` is missing, the loop goes on
GenResume_NoReturn(g) ==
    CASE g.at = "start" -> GenLoop(g)
      [] g.at = "yield_result" -> GenLoop(g)
      [] g.at = "yield_none" ->
            IF g.attempt < g.attempts /\ g.delay > 0
            THEN [g EXCEPT !.at = "sleeping", !.out = None]
            ELSE GenLoop(g)
      [] OTHER -> g

\* __anext__ on a suspended generator: line 39 after a yielded value, lines
\* 47-49 after a yielded None, the loop head on the first call
GenResume(g) ==
    CASE g.at = "start" -> GenLoop(g)
      [] g.at = "yield_result" -> [g EXCEPT !.at = "stopped", !.out = None]
      [] g.at = "yield_none" ->
            IF g.attempt < g.attempts /\ g.delay > 0
            THEN [g EXCEPT !.at = "sleeping", !.out = None]
            ELSE GenLoop(g)
      [] OTHER -> g

\* line 49: asyncio.sleep(delay) is over
GenWake(g) == GenLoop(g)

\* mutant: a caught exception ends the attempt without the `yield None`
\* (the generator goes straight on to the next attempt)
GenReturn_ErrorSkipsYield(g, o) ==
    CASE o.kind = "value" -> [g EXCEPT !.at = "yield_result", !.out = o.v]
      [] o.kind = "none" -> [g EXCEPT !.at = "yield_none", !.out = None]
      [] o.kind = "transient" -> GenLoop([g EXCEPT !.last_exception = o.v])
      [] OTHER -> [g EXCEPT !.at = "raised", !.out = o.v]

\* mutant: a value is yielded as None (`yield None` reached on success too)
GenReturn_ValueAsNone(g, o) ==
    CASE o.kind = "value" -> [g EXCEPT !.at = "yield_result", !.out = None]
      [] o.kind = "none" -> [g EXCEPT !.at = "yield_none", !.out = None]
      [] o.kind = "transient" ->
            [g EXCEPT !.last_exception = o.v, !.at = "yield_none", !.out = None]
      [] OTHER -> [g EXCEPT !.at = "raised", !.out = o.v]

\* mutant: a returned None is remembered like a caught exception
GenReturn_NoneCountsAsError(g, o) ==
    CASE o.kind = "value" -> [g EXCEPT !.at = "yield_result", !.out = o.v]
      [] o.kind = "none" ->
            [g EXCEPT !.last_exception = "ConnectError", !.at = "yield_none", !.out = None]
      [] o.kind = "transient" ->
            [g EXCEPT !.last_exception = o.v, !.at = "yield_none", !.out = None]
      [] OTHER -> [g EXCEPT !.at = "raised", !.out = o.v]

\* mutant: a returned None forgets the exception caught earlier
GenReturn_NoneClearsError(g, o) ==
    CASE o.kind = "value" -> [g EXCEPT !.at = "yield_result", !.out = o.v]
      [] o.kind = "none" ->
            [g EXCEPT !.last_exception = None, !.at = "yield_none", !.out = None]
      [] o.kind = "transient" ->
            [g EXCEPT !.last_exception = o.v, !.at = "yield_none", !.out = None]
      [] OTHER -> [g EXCEPT !.at = "raised", !.out = o.v]

\* lines 35-45: the awaited call of func ends with outcome o
GenReturn(g, o) ==
    CASE o.kind = "value" -> [g EXCEPT !.at = "yield_result", !.out = o.v]
      [] o.kind = "none" -> [g EXCEPT !.at = "yield_none", !.out = None]
      [] o.kind = "transient" ->
            [g EXCEPT !.last_exception = o.v, !.at = "yield_none", !.out = None]
      [] OTHER -> [g EXCEPT !.at = "raised", !.out = o.v]

----------------------------------------------------------------------------
(* Doorbell.publish_if_changed and the MQTT transport *)

\* the tasks of Doorbell.tasks() (lines 78-83), in creation order
Tasks == <<"lock", "refresh", "device", "call">>
TaskSet == {Tasks[i] : i \in 1..Len(Tasks)}

\* state and availability topics of the two discovery entities (lines 52-68)
LockState == "lock/state"
LockAvail == "lock/availability"
RingState == "ring/state"
RingAvail == "ring/availability"
Topics == {LockState, LockAvail, RingState, RingAvail}

\* no publish awaited
NoPub == [topic |-> None, value |-> None]

\* state_cache = {} (line 74): dict.get gives None for every topic
EmptyCache == [tp \in Topics |-> None]

\* mutant: the cache is not updated before publishing (line 91 dropped)
PublishIfChanged_NoCacheUpdate(cache, topic, value) ==
    IF cache[topic] = value
    THEN [cache |-> cache, sent |-> FALSE]
    ELSE [cache |-> cache, sent |-> TRUE]

\* mutant: the value is published when it differs, but the cache forgets it
PublishIfChanged_Forgets(cache, topic, value) ==
    IF cache[topic] = value
    THEN [cache |-> cache, sent |-> FALSE]
    ELSE [cache |-> [cache EXCEPT ![topic] = None], sent |-> TRUE]

\* mutant: no comparison with the cache, every call publishes (line 88 dropped)
PublishIfChanged_Always(cache, topic, value) ==
    [cache |-> [cache EXCEPT ![topic] = value], sent |-> TRUE]

\* lines 88-91: the synchronous part of publish_if_changed; `sent` says
\* whether the call goes on to the transport (lines 92-99)
PublishIfChanged(cache, topic, value) ==
    IF cache[topic] = value
    THEN [cache |-> cache, sent |-> FALSE]
    ELSE [cache |-> [cache EXCEPT ![topic] = value], sent |-> TRUE]

\* line 99: the broker accepts the publish task t awaits
Accepted(t) ==
    [published EXCEPT ![inflight[t].topic] = Append(@, inflight[t].value)]

----------------------------------------------------------------------------
(* The device operations of workers/doorbell.py *)

\* settings.DEVICE_CALL_RETRY_MAX_COUNT, the `attempts` of the three probes
DEVICE_CALL_RETRY_MAX_COUNT == 2

\* settings.DEVICE_CALL_RETRY_DELAY, the `delay` of the three probes
DEVICE_CALL_RETRY_DELAY == 0

\* the command topic of the lock entity (line 67), and another topic
CommandTopic == "lock/set"
OtherTopic == "other"

\* what the device does with one request: an HTTP status with a body, or the
\* request raises (status 0)
Reply(status, body, raise) == [status |-> status, body |-> body, raise |-> raise]

DoorReplies ==
    {Reply(s, "", None) : s \in {200, 204, 500}} \cup {Reply(0, "", "ReadTimeout")}

DeviceInfoReplies ==
    {Reply(200, "<DeviceInfo>", None), Reply(500, "", None), Reply(0, "", "ReadTimeout")}

CallStatusReplies ==
    {Reply(200, b, None) : b \in {"idle", "ring", "onCall"}} \cup
    {Reply(500, "", None), Reply(0, "", "ReadTimeout")}

\* an exception raised inside the wrapped operation, as the generator sees it
Raised(e) ==
    IF e \in TransientErrors THEN [kind |-> "transient", v |-> e]
    ELSE [kind |-> "other", v |-> e]

\* lines 200-214: _open_close_doors(client, open)
OpenCloseDoors(reply, open) ==
    IF reply.raise # None THEN Raised(reply.raise)
    ELSE IF reply.status \in {200, 204}
         THEN [kind |-> "value", v |-> IF open THEN "opened" ELSE "closed"]
         ELSE [kind |-> "none", v |-> None]

\* lines 173-179: _get_device_info(client); DeviceInfo.from_xml parses the body
GetDeviceInfo(reply) ==
    IF reply.raise # None THEN Raised(reply.raise)
    ELSE IF reply.status \in {200, 204}
         THEN IF reply.body = "<DeviceInfo>"
              THEN [kind |-> "value", v |-> "DeviceInfo"]
              ELSE Raised("ParseError")
         ELSE [kind |-> "none", v |-> None]

\* CallInfo (models/hikvision.py 18-22): member names, looked up by CallInfo[name]
CallInfoNames == {"idle", "ring", "calling", "error"}

\* lines 186-193: _get_call_status(client); CallInfo[...] looks the status up
\* among the member names and raises KeyError for any other string
GetCallStatus(reply) ==
    IF reply.raise # None THEN Raised(reply.raise)
    ELSE IF reply.status \in {200, 204}
         THEN IF reply.body \in CallInfoNames
              THEN [kind |-> "value", v |-> reply.body]
              ELSE Raised("KeyError")
         ELSE [kind |-> "none", v |-> None]

\* CallInfo.to_mqtt_event_discovery_event_type (models/hikvision.py 24-35):
\* json.dumps({"event_type": mapping[self].value})
EventTypePayload(info) ==
    CASE info = "idle" -> "{\"event_type\": \"released\"}"
      [] info = "ring" -> "{\"event_type\": \"pressed\"}"
      [] info = "calling" -> "{\"event_type\": \"busy\"}"
      [] OTHER -> "{\"event_type\": \"unknown\"}"

\* DoorInfo.to_mqtt_lock_discovery_state().value (models/hikvision.py 43-49,
\* models/mqtt.py 143-148)
LockDiscoveryState(door) ==
    CASE door = "opened" -> "UNLOCK"
      [] door = "closed" -> "LOCKED"
      [] OTHER -> "JAMMED"

\* MqttMessageAvailabilityPayload (models/mqtt.py 17-19), as chosen in lines 114-118
AvailabilityPayload(available) == IF available THEN "online" ELSE "offline"

----------------------------------------------------------------------------
(* The tasks, as code between suspension points *)

\* no generator
NoGen == NewGen(0, 0, 0)

\* no command cycle yet
NoCycle == [n |-> 0, cache0 |-> None, open |-> None, close |-> None, trace |-> <<>>]

\* the state a task's code reads and writes
State ==
    [client |-> client, device_healthy |-> device_healthy,
     reseted_availability |-> reseted_availability, state_cache |-> state_cache,
     inflight |-> inflight, pc |-> pc, gen |-> gen, local |-> local,
     cycle |-> cycle, count |-> count]

\* the places where a task waits for the event loop
SuspendedAt ==
    {"start", "connect", "wait", "req", "delay", "dwell", "sleep", "wait_client",
     "hold", "failed", "returned", "cancelled"}

\* mutant: a task that ends with an exception discards the shared handle
\* (self._client = None on the way out)
Fail_DropsHandle(st, t, e) ==
    [st EXCEPT !.pc[t] = "failed", !.gen[t] = NoGen, !.local.error[t] = e,
               !.client = 0,
               !.cycle.open = IF t = "lock" /\ st.local.phase = "open"
                              THEN "raised" ELSE @,
               !.cycle.close = IF t = "lock" /\ st.local.phase = "close"
                               THEN "raised" ELSE @]

\* an exception leaves the task's coroutine: the task is done, with that exception
Fail(st, t, e) ==
    [st EXCEPT !.pc[t] = "failed", !.gen[t] = NoGen, !.local.error[t] = e,
               !.cycle.open = IF t = "lock" /\ st.local.phase = "open"
                              THEN "raised" ELSE @,
               !.cycle.close = IF t = "lock" /\ st.local.phase = "close"
                               THEN "raised" ELSE @]

\* mutant: the release after the hold goes to the transport directly and
\* leaves the cache at the value before it
Pub_ReleaseBypassesCache(st, t, topic, value, next) ==
    LET r == PublishIfChanged(st.state_cache, topic, value) IN
    [st EXCEPT !.state_cache = IF value = "released" THEN @ ELSE r.cache,
               !.inflight[t] = IF r.sent THEN [topic |-> topic, value |-> value]
                               ELSE NoPub,
               !.pc[t] = next]

\* `await self.publish_if_changed(topic, value)`, then go on at `next`: the
\* call returns at once when the value is cached, else it awaits the transport
Pub(st, t, topic, value, next) ==
    LET r == PublishIfChanged(st.state_cache, topic, value) IN
    [st EXCEPT !.state_cache = r.cache,
               !.inflight[t] = IF r.sent THEN [topic |-> topic, value |-> value]
                               ELSE NoPub,
               !.pc[t] = next]

\* the generator g of task t has run to its next suspension or to its end:
\* it awaits the device (the request goes out over the handle it was created
\* with), sleeps, has returned (the `async for` is over), or has raised
AfterGen(st, t, g, onStop) ==
    CASE g.at = "calling" ->
            IF g.arg = 0
            THEN Fail(st, t, "AttributeError")
            ELSE [st EXCEPT !.gen[t] = g, !.pc[t] = "req",
                            !.cycle.trace = IF t = "lock"
                                            THEN Append(@, st.local.phase) ELSE @]
      [] g.at = "sleeping" -> [st EXCEPT !.gen[t] = g, !.pc[t] = "delay"]
      [] g.at = "stopped" -> [st EXCEPT !.gen[t] = NoGen, !.pc[t] = onStop]
      [] OTHER -> Fail(st, t, g.out)

\* handle_lock_command (lines 138-152) with open_close_doors (216-224)
LockMicro(st) ==
    LET t == "lock"
        at == st.pc[t]
        g == st.gen[t]
        ph == st.local.phase
    IN
    CASE at \in {"open_call", "close_call"} ->
            \* 138/145 and 217-218: the generator is created over self._client
            [st EXCEPT !.gen[t] = NewGen(DEVICE_CALL_RETRY_MAX_COUNT,
                                         DEVICE_CALL_RETRY_DELAY, st.client),
                       !.local.phase = IF at = "open_call" THEN "open" ELSE "close",
                       !.local.door_state = None,
                       !.pc[t] = "anext"]
      [] at = "anext" -> AfterGen(st, t, GenResume(g), "exhausted")
      [] at = "woken" -> AfterGen(st, t, GenWake(g), "exhausted")
      [] at = "yielded" ->
            \* 219-223
            IF g.at = "raised" THEN Fail(st, t, g.out)
            ELSE IF g.out = None
            THEN [st EXCEPT !.device_healthy = FALSE, !.pc[t] = "anext"]
            ELSE [st EXCEPT !.device_healthy = TRUE, !.gen[t] = NoGen,
                            !.local.door_state = g.out, !.pc[t] = "resolved"]
      [] at = "exhausted" ->
            \* 224
            [st EXCEPT !.local.door_state = "jammed", !.pc[t] = "resolved"]
      [] at = "resolved" /\ ph = "open" ->
            \* 139-144
            IF st.local.door_state # "opened"
            THEN Pub([st EXCEPT !.cycle.open = st.local.door_state],
                     t, LockState, "JAMMED", "wait")
            ELSE Pub([st EXCEPT !.cycle.open = st.local.door_state],
                     t, LockState, "UNLOCKED", "to_dwell")
      [] at = "to_dwell" ->
            [st EXCEPT !.pc[t] = "dwell", !.cycle.trace = Append(@, "dwell")]
      [] at = "resolved" /\ ph = "close" ->
            \* 146-152
            IF ~autolocking /\ st.local.door_state # "closed"
            THEN Pub([st EXCEPT !.cycle.close = st.local.door_state],
                     t, LockState, "JAMMED", "wait")
            ELSE Pub([st EXCEPT !.cycle.close = st.local.door_state],
                     t, LockState, "LOCKED", "wait")
      [] OTHER -> st

\* mutant: the refresh drops the old handle, sleeps, and only then installs
\* the new one
RefreshMicro_DropsHandle(st) ==
    LET t == "refresh" IN
    CASE st.pc[t] = "top" ->
            [st EXCEPT !.client = IF st.client = 0 THEN st.count.refresh + 1 ELSE 0,
                       !.count.refresh = @ + 1,
                       !.pc[t] = "sleep"]
      [] OTHER -> st

\* refresh_client (lines 226-231); the loop ends when stop_event is set
RefreshMicro(st) ==
    LET t == "refresh" IN
    CASE st.pc[t] = "top" ->
            IF boot.stop_event
            THEN [st EXCEPT !.pc[t] = "returned"]
            ELSE [st EXCEPT !.client = st.count.refresh + 1,
                            !.count.refresh = @ + 1,
                            !.pc[t] = "sleep"]
      [] OTHER -> st

\* handle_device_infos (lines 233-254) with publish_availability (112-121)
DeviceMicro(st) ==
    LET t == "device"
        at == st.pc[t]
        g == st.gen[t]
        a == st.local.available
    IN
    CASE at = "top" ->
            \* 234-240
            IF boot.stop_event
            THEN [st EXCEPT !.pc[t] = "returned"]
            ELSE IF st.client = 0
            THEN [st EXCEPT !.pc[t] = "wait_client"]
            ELSE [st EXCEPT !.gen[t] = NewGen(DEVICE_CALL_RETRY_MAX_COUNT,
                                              DEVICE_CALL_RETRY_DELAY, st.client),
                            !.count.device = @ + 1,
                            !.pc[t] = "anext"]
      [] at = "anext" -> AfterGen(st, t, GenResume(g), "sleep")
      [] at = "woken" -> AfterGen(st, t, GenWake(g), "sleep")
      [] at = "yielded" ->
            \* 241-246
            IF g.at = "raised" THEN Fail(st, t, g.out)
            ELSE IF g.out = None
            THEN [st EXCEPT !.device_healthy = FALSE, !.local.available = FALSE,
                            !.local.seen.device = Append(@, "none"),
                            !.pc[t] = "availability_lock"]
            ELSE [st EXCEPT !.local.available = TRUE,
                            !.local.seen.device = Append(@, "value"),
                            !.pc[t] = "availability_lock"]
      [] at = "availability_lock" ->
            \* 113-119, first entity of _discovery_list
            Pub(st, t, LockAvail, AvailabilityPayload(a), "availability_ring")
      [] at = "availability_ring" ->
            \* 113-119, second entity
            Pub(st, t, RingAvail, AvailabilityPayload(a), "availability_end")
      [] at = "availability_end" ->
            \* 120-121, then back in the caller
            IF a THEN [st EXCEPT !.pc[t] = "resync"]
            ELSE [st EXCEPT !.reseted_availability = TRUE, !.pc[t] = "anext"]
      [] at = "resync" ->
            \* 247-250
            IF st.reseted_availability
            THEN Pub(st, t, LockState, LockDiscoveryState("closed"), "resync_clear")
            ELSE [st EXCEPT !.pc[t] = "anext"]
      [] at = "resync_clear" ->
            \* 251-252
            [st EXCEPT !.reseted_availability = FALSE, !.pc[t] = "anext"]
      [] OTHER -> st

\* mutant: line 265 is not commented out, a no-value outcome of the
\* call-status poll marks the device unhealthy
CallMicro_MarksUnhealthy(st) ==
    LET t == "call"
        at == st.pc[t]
        g == st.gen[t]
    IN
    CASE at = "top" ->
            \* 257-263
            IF boot.stop_event
            THEN [st EXCEPT !.pc[t] = "returned"]
            ELSE IF st.client = 0
            THEN [st EXCEPT !.pc[t] = "wait_client"]
            ELSE [st EXCEPT !.gen[t] = NewGen(DEVICE_CALL_RETRY_MAX_COUNT,
                                              DEVICE_CALL_RETRY_DELAY, st.client),
                            !.count.call = @ + 1,
                            !.pc[t] = "anext"]
      [] at = "anext" -> AfterGen(st, t, GenResume(g), "sleep")
      [] at = "woken" -> AfterGen(st, t, GenWake(g), "sleep")
      [] at = "yielded" ->
            \* 264-277
            IF g.at = "raised" THEN Fail(st, t, g.out)
            ELSE LET st2 == [st EXCEPT !.local.seen.call = Append(@, g.out)] IN
                 IF g.out = None
                 THEN Pub([st2 EXCEPT !.device_healthy = FALSE],
                          t, RingState, "unknown", "anext")
                 ELSE IF g.out = "ring"
                 THEN Pub(st2, t, RingState, "pressed", "hold")
                 ELSE Pub(st2, t, RingState, EventTypePayload(g.out), "anext")
      [] at = "release" ->
            \* 273
            Pub(st, t, RingState, "released", "anext")
      [] OTHER -> st

\* handle_call_statuses (lines 256-279)
CallMicro(st) ==
    LET t == "call"
        at == st.pc[t]
        g == st.gen[t]
    IN
    CASE at = "top" ->
            \* 257-263
            IF boot.stop_event
            THEN [st EXCEPT !.pc[t] = "returned"]
            ELSE IF st.client = 0
            THEN [st EXCEPT !.pc[t] = "wait_client"]
            ELSE [st EXCEPT !.gen[t] = NewGen(DEVICE_CALL_RETRY_MAX_COUNT,
                                              DEVICE_CALL_RETRY_DELAY, st.client),
                            !.count.call = @ + 1,
                            !.pc[t] = "anext"]
      [] at = "anext" -> AfterGen(st, t, GenResume(g), "sleep")
      [] at = "woken" -> AfterGen(st, t, GenWake(g), "sleep")
      [] at = "yielded" ->
            \* 264-277
            IF g.at = "raised" THEN Fail(st, t, g.out)
            ELSE LET st2 == [st EXCEPT !.local.seen.call = Append(@, g.out)] IN
                 IF g.out = None
                 THEN Pub(st2, t, RingState, "unknown", "anext")
                 ELSE IF g.out = "ring"
                 THEN Pub(st2, t, RingState, "pressed", "hold")
                 ELSE Pub(st2, t, RingState, EventTypePayload(g.out), "anext")
      [] at = "release" ->
            \* 273
            Pub(st, t, RingState, "released", "anext")
      [] OTHER -> st

\* one piece of task t's code that does not wait
Micro(st, t) ==
    CASE t = "lock" -> LockMicro(st)
      [] t = "refresh" -> RefreshMicro(st)
      [] t = "device" -> DeviceMicro(st)
      [] OTHER -> CallMicro(st)

\* task t runs until it waits: for a publish it awaits, or at a suspension point
RECURSIVE Run(_, _)
Run(st, t) ==
    IF st.inflight[t] # NoPub \/ st.pc[t] \in SuspendedAt
    THEN st
    ELSE Run(Micro(st, t), t)

\* the next state is st
Set(st) ==
    /\ client' = st.client
    /\ device_healthy' = st.device_healthy
    /\ reseted_availability' = st.reseted_availability
    /\ state_cache' = st.state_cache
    /\ inflight' = st.inflight
    /\ pc' = st.pc
    /\ gen' = st.gen
    /\ local' = st.local
    /\ cycle' = st.cycle
    /\ count' = st.count

\* position of task t in Doorbell.tasks()
TaskIndex(t) == CHOOSE i \in 1..Len(Tasks) : Tasks[i] = t

\* the event loop runs a new task's first step in creation order, before any
\* I/O completes: the task runs to its first suspension point
Start(t) ==
    /\ pc[t] = "start"
    /\ \A i \in 1..(TaskIndex(t) - 1) : pc[Tasks[i]] # "start"
    /\ Set(Run([State EXCEPT !.pc[t] = IF t = "lock" THEN "connect" ELSE "top"], t))
    /\ UNCHANGED <<probe, boot, calls, published, autolocking, queue>>

\* every task has run its first step
AllStarted == \A t \in TaskSet : pc[t] # "start"

\* lines 124-132: the lock controller's client is connected and subscribed
LockSubscribed ==
    /\ AllStarted
    /\ pc["lock"] = "connect"
    /\ pc' = [pc EXCEPT !["lock"] = "wait"]
    /\ UNCHANGED <<probe, boot, calls, dedupVars, client, device_healthy,
                   reseted_availability, autolocking, gen, local, queue, cycle, count>>

\* the broker delivers a message to the subscribed lock controller
MessageArrives(tp) ==
    /\ pc["lock"] \notin {"start", "connect", "failed"}
    /\ count.messages < MaxMessages
    /\ queue' = Append(queue, tp)
    /\ count' = [count EXCEPT !.messages = @ + 1]
    /\ UNCHANGED <<probe, boot, calls, dedupVars, client, device_healthy,
                   reseted_availability, autolocking, pc, gen, local, cycle>>

\* mutant: a message is handled as soon as it arrives, whatever the
\* controller is doing (a handler per message instead of the `async for`)
LockReceive_NoWait ==
    /\ pc["lock"] \notin {"start", "connect", "failed"}
    /\ queue # <<>>
    /\ queue' = Tail(queue)
    /\ IF Head(queue) # CommandTopic
       THEN UNCHANGED <<dedupVars, client, device_healthy, reseted_availability,
                        pc, gen, local, cycle, count>>
       ELSE /\ Set(Run([State EXCEPT
                          !.pc["lock"] = "open_call",
                          !.inflight["lock"] = NoPub,
                          !.cycle = [n |-> cycle.n + 1,
                                     cache0 |-> state_cache[LockState],
                                     open |-> None, close |-> None,
                                     trace |-> <<>>]], "lock"))
            /\ UNCHANGED published
    /\ UNCHANGED <<probe, boot, calls, autolocking>>

\* lines 134-138: the lock controller takes the next message; a message on
\* the command topic starts a cycle
LockReceive ==
    /\ pc["lock"] = "wait"
    /\ inflight["lock"] = NoPub
    /\ queue # <<>>
    /\ queue' = Tail(queue)
    /\ IF Head(queue) # CommandTopic
       THEN UNCHANGED <<dedupVars, client, device_healthy, reseted_availability,
                        pc, gen, local, cycle, count>>
       ELSE /\ Set(Run([State EXCEPT
                          !.pc["lock"] = "open_call",
                          !.cycle = [n |-> cycle.n + 1,
                                     cache0 |-> state_cache[LockState],
                                     open |-> None, close |-> None,
                                     trace |-> <<>>]], "lock"))
            /\ UNCHANGED published
    /\ UNCHANGED <<probe, boot, calls, autolocking>>

\* the replies the device may give to task t's request
RepliesFor(t) ==
    CASE t = "lock" -> DoorReplies
      [] t = "device" -> DeviceInfoReplies
      [] OTHER -> CallStatusReplies

\* the wrapped operation of task t, applied to the device's reply
Operation(t, reply) ==
    CASE t = "lock" -> OpenCloseDoors(reply, local.phase = "open")
      [] t = "device" -> GetDeviceInfo(reply)
      [] OTHER -> GetCallStatus(reply)

\* the request task t awaits ends: the generator yields or raises, and the
\* task's loop body runs
Response(t) ==
    /\ AllStarted
    /\ pc[t] = "req"
    /\ \E reply \in RepliesFor(t) :
         Set(Run([State EXCEPT !.gen[t] = GenReturn(gen[t], Operation(t, reply)),
                               !.pc[t] = "yielded"], t))
    /\ UNCHANGED <<probe, boot, calls, published, autolocking, queue>>

\* line 99: the broker accepts the publish task t awaits; the task goes on
PublishDone(t) ==
    /\ AllStarted
    /\ inflight[t] # NoPub
    /\ published' = Accepted(t)
    /\ Set(Run([State EXCEPT
                  !.inflight[t] = NoPub,
                  !.cycle.trace = IF t = "lock" THEN Append(@, inflight[t].value)
                                  ELSE @], t))
    /\ UNCHANGED <<probe, boot, calls, autolocking, queue>>

\* lines 92-99: the connection to the broker or the publish task t awaits
\* fails with MqttError; no caller of publish_if_changed catches it, so it
\* ends the task. The cache keeps the value written in line 91.
PublishFails(t) ==
    /\ AllStarted
    /\ inflight[t] # NoPub
    /\ Set(Fail([State EXCEPT !.inflight[t] = NoPub], t, "MqttError"))
    /\ UNCHANGED <<probe, boot, calls, published, autolocking, queue>>

\* mutant: after the hold of line 272 the poller goes on without line 273
AfterSleep_NoRelease(at) ==
    CASE at = "dwell" -> "close_call"
      [] at = "hold" -> "anext"
      [] at = "delay" -> "woken"
      [] OTHER -> "top"

\* where a sleeping task goes on
AfterSleep(at) ==
    CASE at = "dwell" -> "close_call"
      [] at = "hold" -> "release"
      [] at = "delay" -> "woken"
      [] OTHER -> "top"

\* an asyncio.sleep of task t is over (lines 144, 231, 237, 254, 260, 272, 279)
Wake(t) ==
    /\ AllStarted
    /\ pc[t] \in {"dwell", "hold", "delay", "sleep", "wait_client"}
    /\ inflight[t] = NoPub
    /\ (t = "refresh") => (count.refresh < MaxRefresh \/ boot.stop_event)
    /\ (t = "device" /\ pc[t] = "sleep") =>
          (count.device < MaxDevicePolls \/ boot.stop_event)
    /\ (t = "call" /\ pc[t] = "sleep") =>
          (count.call < MaxCallPolls \/ boot.stop_event)
    /\ Set(Run([State EXCEPT !.pc[t] = AfterSleep(pc[t])], t))
    /\ UNCHANGED <<probe, boot, calls, published, autolocking, queue>>

\* the poll interval of poller t is over (lines 254, 279), in the
\* specifications of one poller
PollAgain(t) ==
    /\ AllStarted
    /\ pc[t] = "sleep"
    /\ inflight[t] = NoPub
    /\ count[t] < MaxPolls
    /\ Set(Run([State EXCEPT !.pc[t] = "top"], t))
    /\ UNCHANGED <<probe, boot, calls, published, autolocking, queue>>

----------------------------------------------------------------------------
(* Discovery publication: models/mqtt.py, workers/doorbell.py, app.py,     *)
(* mqtt_bridge.py                                                          *)

\* the two kinds of object handed to MqttDiscovery.publish_discovery
MqttClient == "Client"
DiscoveryPrefix == "homeassistant"

\* MqttDiscovery.publish_discovery(self, discovery_prefix, mqtt)
\* (models/mqtt.py 61-67): `await mqtt.publish(...)` publishes the config
\* payload when `mqtt` is a client; a str has no attribute `publish`
DiscoveryPublish(discovery_prefix, mqtt) ==
    IF mqtt = MqttClient THEN "published" ELSE "AttributeError"

\* Doorbell._discovery_list (doorbell.py 70-73)
DiscoveryList == <<"lock", "ring">>

\* before any discovery publication. `lifespan` is where app.lifespan is,
\* stop_event its asyncio.Event (app.py 17), pending the tasks asyncio.wait
\* returned as not done (app.py 20);
\* dpc, di, dcalls, dconfig, derror: Doorbell.publish_discovery (where a call
\* is, its loop index, calls ended, configs the broker accepted, the last
\* call's exception);
\* bridge: the same for MQTTBridge.publish_discovery_once, with its latch,
\* its state cache, the lock states published and _lock_event_queue's length;
\* then MQTTBridge.handle_mqtt_commands: where it is (cmd_at), the handle of
\* HikvisionClient (client, 0 is None), the inbound messages (queue,
\* received), the door requests that failed in the current
\* ensure_door_state call (tries), the exception that ended the handler,
\* and per command taken what ensure_door_state resolved to and the lock
\* states the broker accepted for it (cmds)
BootIdle ==
    [lifespan |-> "startup", stop_event |-> FALSE, pending |-> {},
     dpc |-> "idle", di |-> 0, dcalls |-> 0,
     dconfig |-> <<>>, derror |-> None,
     bridge |-> [at |-> "idle", calls |-> 0, discovery_sent_once |-> FALSE,
                 config |-> <<>>, state_cache |-> EmptyCache, state |-> <<>>,
                 lock_event_queue |-> 0, error |-> None,
                 cmd_at |-> "off", client |-> 0, queue |-> <<>>, received |-> 0,
                 tries |-> 0, cmd_error |-> None, cmds |-> <<>>]]

\* a call of Doorbell.publish_discovery has ended with exception e (None: it
\* returned); the first call is the one of app.lifespan (app.py 19-23), which
\* goes on to create the tasks only if the call returned
DiscoveryEnds(b, e) ==
    [b EXCEPT !.dpc = "idle", !.dcalls = @ + 1, !.derror = e,
              !.lifespan = IF b.lifespan # "startup" THEN @
                           ELSE IF e = None THEN "waiting" ELSE "failed"]

\* Doorbell.publish_discovery is called (app.py 19, or again): it awaits the
\* connection of its own client (doorbell.py 102-108)
DiscoveryCall ==
    /\ boot.dpc = "idle"
    /\ boot.dcalls < MaxDiscoveryCalls
    /\ boot' = [boot EXCEPT !.dpc = "connect"]
    /\ UNCHANGED <<probe, calls, dedupVars, client, device_healthy,
                   reseted_availability, autolocking, pc, gen, local, queue, cycle,
                   count>>

\* the loop of doorbell.py 109-110 from entity i on: the call
\* discovery.publish_discovery(mqtt, settings.MQTT_DISCOVERY_PREFIX) passes
\* the client first and the prefix second
DiscoveryLoop(b, i) ==
    IF i > Len(DiscoveryList) THEN DiscoveryEnds(b, None)
    ELSE LET r == DiscoveryPublish(MqttClient, DiscoveryPrefix) IN
         IF r = "published"
         THEN [b EXCEPT !.dpc = "publish", !.di = i]
         ELSE DiscoveryEnds(b, r)

\* doorbell.py 102-110: what Doorbell.publish_discovery awaits (the
\* connection, or the publish of an entity's config) succeeds or fails
DiscoveryAdvance ==
    /\ boot.dpc \in {"connect", "publish"}
    /\ \E ok \in BOOLEAN :
         boot' =
            IF ~ok THEN DiscoveryEnds(boot, "MqttError")
            ELSE IF boot.dpc = "connect" THEN DiscoveryLoop(boot, 1)
            ELSE DiscoveryLoop([boot EXCEPT !.dconfig = Append(@, DiscoveryList[boot.di])],
                               boot.di + 1)
    /\ UNCHANGED <<probe, calls, dedupVars, client, device_healthy,
                   reseted_availability, autolocking, pc, gen, local, queue, cycle,
                   count>>

\* MQTTBridge.publish_discovery_once has ended with exception e (None: it
\* returned)
BridgeEnds(br, e) == [br EXCEPT !.at = "idle", !.calls = @ + 1, !.error = e]

\* MQTTBridge.publish_discovery_once is called (mqtt_bridge.py 63-67, from
\* run, line 120, or again): a no-op once the latch is set, else it awaits
\* the publish of the event entity's config
BridgeCall ==
    /\ boot.bridge.at = "idle"
    /\ boot.bridge.calls < MaxDiscoveryCalls
    /\ boot' = [boot EXCEPT !.bridge =
                  IF @.discovery_sent_once THEN BridgeEnds(@, None)
                  ELSE IF DiscoveryPublish(DiscoveryPrefix, MqttClient) = "published"
                  THEN [@ EXCEPT !.at = "event"]
                  ELSE BridgeEnds(@, DiscoveryPublish(DiscoveryPrefix, MqttClient))]
    /\ UNCHANGED <<probe, calls, dedupVars, client, device_healthy,
                   reseted_availability, autolocking, pc, gen, local, queue, cycle,
                   count>>

\* mqtt_bridge.py 70-71 with 73-78: _publish_if_changed(state_topic, LOCKED),
\* then the latch is set
BridgeLocked(br) ==
    LET r == PublishIfChanged(br.state_cache, LockState, "LOCKED") IN
    IF r.sent
    THEN [br EXCEPT !.state_cache = r.cache, !.at = "state"]
    ELSE BridgeEnds([br EXCEPT !.discovery_sent_once = TRUE], None)

\* mqtt_bridge.py 67-71: the publish publish_discovery_once awaits is
\* accepted, or fails and the call ends with MqttError
BridgeAdvance ==
    /\ boot.bridge.at \in {"event", "lock", "state"}
    /\ \E ok \in BOOLEAN :
         boot' = [boot EXCEPT !.bridge =
            IF ~ok THEN BridgeEnds(@, "MqttError")
            ELSE CASE @.at = "event" ->
                        [@ EXCEPT !.config = Append(@, "event"), !.at = "lock"]
                   [] @.at = "lock" ->
                        BridgeLocked([@ EXCEPT !.config = Append(@, "lock"),
                                               !.lock_event_queue = @ + 1])
                   [] OTHER ->
                        BridgeEnds([@ EXCEPT !.state = Append(@, "LOCKED"),
                                             !.discovery_sent_once = TRUE], None)]
    /\ UNCHANGED <<probe, calls, dedupVars, client, device_healthy,
                   reseted_availability, autolocking, pc, gen, local, queue, cycle,
                   count>>

----------------------------------------------------------------------------
(* The legacy bridge's command handler: MQTTBridge.handle_mqtt_commands    *)
(* (mqtt_bridge.py 81-100) with HikvisionClient.ensure_door_state          *)
(* (hikvision_client.py 80-100)                                            *)

\* the default of ensure_door_state's retry_count parameter
retry_count == 10

\* the members of MqttLockDiscoveryState (models/mqtt.py 143-148), by value
MqttLockDiscoveryStates == {"LOCK", "UNLOCK", "JAMMED", "LOCKED", "UNLOCKED"}

\* `if x:` for what ensure_door_state returns: a member of an Enum that
\* defines no __bool__ is true, whichever member it is
Truthy(x) == x \in MqttLockDiscoveryStates

\* the last command's record in br.cmds, changed by f
LastCmd(br, field, v) ==
    [br EXCEPT !.cmds[Len(br.cmds)] = [@ EXCEPT ![field] = v]]

\* mqtt_bridge.py 90-100: ensure_door_state(True) has returned `result`;
\* on a true result UNLOCKED goes through _publish_if_changed and the
\* handler sleeps 10 s, else it logs and takes the next message
BridgeResolved(br, result) ==
    LET b1 == LastCmd(br, "result", result)
        r == PublishIfChanged(b1.state_cache, LockState, "UNLOCKED")
    IN
    IF ~Truthy(result) THEN [b1 EXCEPT !.cmd_at = "wait"]
    ELSE IF r.sent THEN [b1 EXCEPT !.state_cache = r.cache, !.cmd_at = "pub_unlocked"]
    ELSE [b1 EXCEPT !.cmd_at = "dwell"]

\* hikvision_client.py 90-100: the head of `for _ in range(retry_count)`
\* after br.tries failed requests: the next request is sent (once a handle
\* exists, 91-93), or the loop is over and jammed is returned
EnsureLoop(br) ==
    IF br.tries < retry_count
    THEN [br EXCEPT !.cmd_at = IF br.client = 0 THEN "wait_client" ELSE "req"]
    ELSE BridgeResolved(br, "JAMMED")

\* mqtt_bridge.py 121-129 and 83, hikvision_client.py 102-109: run() creates
\* the tasks once publish_discovery_once has returned; refresh_client's
\* first step installs a handle and the command handler subscribes
BridgeRun ==
    /\ boot.bridge.cmd_at = "off"
    /\ boot.bridge.at = "idle"
    /\ boot.bridge.calls > 0 /\ boot.bridge.error = None
    /\ boot' = [boot EXCEPT !.bridge.cmd_at = "wait", !.bridge.client = 1]
    /\ UNCHANGED <<probe, calls, dedupVars, client, device_healthy,
                   reseted_availability, autolocking, pc, gen, local, queue, cycle,
                   count>>

\* the broker delivers a message to the subscribed command handler
BridgeMessage(tp) ==
    /\ boot.bridge.cmd_at \notin {"off", "failed"}
    /\ boot.bridge.received < MaxMessages
    /\ boot' = [boot EXCEPT !.bridge.queue = Append(@, tp),
                            !.bridge.received = @ + 1]
    /\ UNCHANGED <<probe, calls, dedupVars, client, device_healthy,
                   reseted_availability, autolocking, pc, gen, local, queue, cycle,
                   count>>

\* mqtt_bridge.py 86-90: the handler takes the next message; one on the
\* command topic calls ensure_door_state(True)
BridgeReceive ==
    /\ boot.bridge.cmd_at = "wait"
    /\ boot.bridge.queue # <<>>
    /\ boot' = [boot EXCEPT !.bridge =
                  IF Head(@.queue) # CommandTopic
                  THEN [@ EXCEPT !.queue = Tail(@)]
                  ELSE EnsureLoop([@ EXCEPT
                          !.queue = Tail(@),
                          !.tries = 0,
                          !.cmds = Append(@, [result |-> None, pubs |-> <<>>])])]
    /\ UNCHANGED <<probe, calls, dedupVars, client, device_healthy,
                   reseted_availability, autolocking, pc, gen, local, queue, cycle,
                   count>>

\* hikvision_client.py 94-99: the device answers the door request: 200 or
\* 204 ends ensure_door_state(True) with unlocked, another status is
\* followed by a 1 s sleep; an httpx exception is caught nowhere and ends
\* the handler
BridgeReply ==
    /\ boot.bridge.cmd_at = "req"
    /\ \E reply \in DoorReplies :
         boot' = [boot EXCEPT !.bridge =
            IF reply.raise # None
            THEN [@ EXCEPT !.cmd_at = "failed", !.cmd_error = reply.raise]
            ELSE IF reply.status \in {200, 204}
            THEN BridgeResolved(@, "UNLOCKED")
            ELSE [@ EXCEPT !.tries = @ + 1, !.cmd_at = "retry_sleep"]]
    /\ UNCHANGED <<probe, calls, dedupVars, client, device_healthy,
                   reseted_availability, autolocking, pc, gen, local, queue, cycle,
                   count>>

\* a sleep of the handler is over: hikvision_client.py 93 and 99 go back to
\* the loop, mqtt_bridge.py 95 goes on to _publish_if_changed(LOCKED)
BridgeWake ==
    /\ boot.bridge.cmd_at \in {"wait_client", "retry_sleep", "dwell"}
    /\ boot' = [boot EXCEPT !.bridge =
            IF @.cmd_at # "dwell" THEN EnsureLoop(@)
            ELSE LET r == PublishIfChanged(@.state_cache, LockState, "LOCKED") IN
                 IF r.sent THEN [@ EXCEPT !.state_cache = r.cache, !.cmd_at = "pub_locked"]
                 ELSE [@ EXCEPT !.cmd_at = "wait"]]
    /\ UNCHANGED <<probe, calls, dedupVars, client, device_healthy,
                   reseted_availability, autolocking, pc, gen, local, queue, cycle,
                   count>>

\* mqtt_bridge.py 78: the broker accepts the publish the handler awaits, or
\* the publish fails with MqttError, which ends the handler
BridgePublished ==
    /\ boot.bridge.cmd_at \in {"pub_unlocked", "pub_locked"}
    /\ \E ok \in BOOLEAN :
         boot' = [boot EXCEPT !.bridge =
            LET v == IF @.cmd_at = "pub_unlocked" THEN "UNLOCKED" ELSE "LOCKED" IN
            IF ~ok THEN [@ EXCEPT !.cmd_at = "failed", !.cmd_error = "MqttError"]
            ELSE [LastCmd(@, "pubs", Append(@.cmds[Len(@.cmds)].pubs, v)) EXCEPT
                     !.state = Append(@, v),
                     !.cmd_at = IF v = "UNLOCKED" THEN "dwell" ELSE "wait"]]
    /\ UNCHANGED <<probe, calls, dedupVars, client, device_healthy,
                   reseted_availability, autolocking, pc, gen, local, queue, cycle,
                   count>>

----------------------------------------------------------------------------
(* TaskSupervisor: app.lifespan (app.py 13-34) over Doorbell.tasks()       *)

\* a task is done: an exception left it, its coroutine returned, or it was
\* cancelled
Done == {"failed", "returned", "cancelled"}

\* mutant: the wait ends as soon as any task is done (FIRST_COMPLETED)
WaitOver_FirstCompleted(p) == \E t \in TaskSet : p[t] \in Done

\* app.py 20-23: asyncio.wait(..., return_when=FIRST_EXCEPTION) is over when
\* a task has ended by raising, or when every task is done
WaitOver(p) ==
    \/ \E t \in TaskSet : p[t] = "failed"
    \/ \A t \in TaskSet : p[t] \in Done

\* app.py 19-21: publish_discovery has returned, Doorbell.tasks(stop_event)
\* has created the four tasks and lifespan awaits asyncio.wait
TasksCreated ==
    /\ boot.lifespan = "startup"
    /\ pc = [t \in TaskSet |-> "start"]
    /\ boot' = [boot EXCEPT !.lifespan = "waiting"]
    /\ UNCHANGED <<probe, calls, dedupVars, client, device_healthy,
                   reseted_availability, autolocking, pc, gen, local, queue, cycle,
                   count>>

\* stop_event.set(): the event lifespan hands to Doorbell.tasks is set
StopSet ==
    /\ boot.lifespan # "startup"
    /\ ~boot.stop_event
    /\ boot' = [boot EXCEPT !.stop_event = TRUE]
    /\ UNCHANGED <<probe, calls, dedupVars, client, device_healthy,
                   reseted_availability, autolocking, pc, gen, local, queue, cycle,
                   count>>

\* app.py 20-25: asyncio.wait returns (done, pending) and lifespan yields:
\* startup is complete and the application serves
WaitReturns ==
    /\ boot.lifespan = "waiting"
    /\ WaitOver(pc)
    /\ boot' = [boot EXCEPT !.lifespan = "serving",
                            !.pending = {t \in TaskSet : pc[t] \notin Done}]
    /\ UNCHANGED <<probe, calls, dedupVars, client, device_healthy,
                   reseted_availability, autolocking, pc, gen, local, queue, cycle,
                   count>>

\* app.py 26-28: the application shuts down, the `finally` block starts
Shutdown ==
    /\ boot.lifespan = "serving"
    /\ boot' = [boot EXCEPT !.lifespan = "stopping"]
    /\ UNCHANGED <<probe, calls, dedupVars, client, device_healthy,
                   reseted_availability, autolocking, pc, gen, local, queue, cycle,
                   count>>

\* app.py 29-34: one round of `for t in pending: t.cancel(); await t`, the
\* set iterated in any order. A task that is suspended gets CancelledError
\* at its suspension point, which none of the four coroutines catches; the
\* publish it awaited is abandoned. Awaiting a task that has meanwhile ended
\* with an exception raises that exception out of lifespan; awaiting one
\* that has returned gives its result. After the last task lifespan returns.
CancelNext ==
    /\ boot.lifespan = "stopping"
    /\ IF boot.pending = {}
       THEN /\ boot' = [boot EXCEPT !.lifespan = "stopped"]
            /\ UNCHANGED <<pc, gen, inflight>>
       ELSE \E t \in boot.pending :
              IF pc[t] = "failed"
              THEN /\ boot' = [boot EXCEPT !.lifespan = "failed"]
                   /\ UNCHANGED <<pc, gen, inflight>>
              ELSE /\ boot' = [boot EXCEPT !.pending = @ \ {t}]
                   /\ pc' = [pc EXCEPT ![t] = IF @ = "returned" THEN @
                                               ELSE "cancelled"]
                   /\ gen' = [gen EXCEPT ![t] = NoGen]
                   /\ inflight' = [inflight EXCEPT ![t] = NoPub]
    /\ UNCHANGED <<probe, calls, state_cache, published, client, device_healthy,
                   reseted_availability, autolocking, local, queue, cycle, count>>

\* Doorbell.__init__ (lines 36-74) and the tasks just created (76-85)
TasksIdle ==
    /\ client = 0
    /\ device_healthy = TRUE
    /\ reseted_availability = TRUE
    /\ pc = [t \in TaskSet |-> "start"]
    /\ gen = [t \in TaskSet |-> NoGen]
    /\ local = [phase |-> None, door_state |-> None, available |-> FALSE,
                error |-> [t \in TaskSet |-> None],
                seen |-> [device |-> <<>>, call |-> <<>>]]
    /\ queue = <<>>
    /\ cycle = NoCycle
    /\ count = [refresh |-> 0, messages |-> 0, device |-> 0, call |-> 0]
    \* discovery publication is followed in SpecDiscovery only
    /\ boot = BootIdle

----------------------------------------------------------------------------
(* SpecDedup: publish_if_changed under arbitrary calls *)

DedupTopics == {LockState, LockAvail}
DedupValues == {"online", "offline"}
DedupCallers == {"lock", "device"}

\* a caller that awaits no publish calls publish_if_changed(topic, value)
DedupCall ==
    /\ Len(calls) < MaxCalls
    /\ \E t \in DedupCallers, tp \in DedupTopics, v \in DedupValues :
         /\ inflight[t] = NoPub
         /\ LET r == PublishIfChanged(state_cache, tp, v) IN
            /\ state_cache' = r.cache
            /\ inflight' = IF r.sent
                           THEN [inflight EXCEPT ![t] = [topic |-> tp, value |-> v]]
                           ELSE inflight
            /\ calls' = Append(calls, [task |-> t, topic |-> tp, value |-> v,
                                       before |-> state_cache[tp], sent |-> r.sent,
                                       after |-> r.cache[tp]])
    /\ UNCHANGED <<probe, published, taskVars>>

\* the broker accepts a caller's publish; the call returns
DedupPublishDone ==
    \E t \in DedupCallers :
        /\ inflight[t] # NoPub
        /\ published' = Accepted(t)
        /\ inflight' = [inflight EXCEPT ![t] = NoPub]
        /\ UNCHANGED <<probe, calls, state_cache, taskVars>>

\* the probe is not part of this specification
ProbeIdle ==
    probe = [g |-> NewGen(0, 0, None), yielded |-> <<>>, history |-> <<>>,
             calls |-> 0, sleeps |-> 0]

\* the bridge before any publish
TransportIdle ==
    /\ state_cache = EmptyCache
    /\ inflight = [t \in TaskSet |-> NoPub]
    /\ published = [tp \in Topics |-> <<>>]

InitDedup ==
    ProbeIdle /\ calls = <<>> /\ TransportIdle /\ TasksIdle /\ autolocking = FALSE

NextDedup == DedupCall \/ DedupPublishDone

SpecDedup == InitDedup /\ [][NextDedup]_vars

----------------------------------------------------------------------------
(* SpecProbe: `async for x in wrapped(...)` over one generator *)

\* the consumer calls __anext__
ProbeAnext ==
    /\ probe.g.at \in {"start", "yield_result", "yield_none"}
    /\ LET g2 == GenResume(probe.g) IN
       probe' = [probe EXCEPT !.g = g2,
                              !.calls = IF g2.at = "calling" THEN @ + 1 ELSE @,
                              !.sleeps = IF g2.at = "sleeping" THEN @ + 1 ELSE @]

\* the inter-attempt delay is over
ProbeWake ==
    /\ probe.g.at = "sleeping"
    /\ LET g2 == GenWake(probe.g) IN
       probe' = [probe EXCEPT !.g = g2,
                              !.calls = IF g2.at = "calling" THEN @ + 1 ELSE @]

\* the wrapped operation ends; a yield is delivered to the consumer
ProbeReturn ==
    /\ probe.g.at = "calling"
    /\ \E o \in Outcomes :
         LET g2 == GenReturn(probe.g, o) IN
         probe' = [probe EXCEPT
                     !.g = g2,
                     !.history = Append(@, o),
                     !.calls = IF g2.at = "calling" THEN @ + 1 ELSE @,
                     !.yielded = IF g2.at \in {"yield_result", "yield_none"}
                                 THEN Append(@, g2.out) ELSE @]

InitProbe ==
    /\ \E n \in 1..MaxAttempts, d \in {0, 1} :
         probe = [g |-> NewGen(n, d, None), yielded |-> <<>>, history |-> <<>>,
                  calls |-> 0, sleeps |-> 0]
    /\ calls = <<>>
    /\ TransportIdle
    /\ TasksIdle
    /\ autolocking = FALSE

NextProbe ==
    /\ ProbeAnext \/ ProbeWake \/ ProbeReturn
    /\ UNCHANGED <<calls, dedupVars, taskVars>>

----------------------------------------------------------------------------
(* Spec: the tasks of Doorbell.tasks() under the event loop *)

Init ==
    /\ ProbeIdle
    /\ calls = <<>>
    /\ TransportIdle
    /\ TasksIdle
    /\ autolocking \in BOOLEAN

Next ==
    \/ \E t \in TaskSet : Start(t)
    \/ LockSubscribed
    \/ MessageArrives(CommandTopic)
    \/ LockReceive
    \/ \E t \in {"lock", "device", "call"} : Response(t)
    \/ \E t \in {"lock", "device", "call"} : PublishDone(t)
    \/ \E t \in TaskSet : Wake(t)

Spec == Init /\ [][Next]_vars

SpecProbe == InitProbe /\ [][NextProbe]_vars

----------------------------------------------------------------------------
(* SpecLock: the lock controller and the handle refresh; the two pollers   *)
(* have sent their first request and the device does not answer them       *)

NextLock ==
    \/ \E t \in TaskSet : Start(t)
    \/ LockSubscribed
    \/ \E tp \in {CommandTopic, OtherTopic} : MessageArrives(tp)
    \/ LockReceive
    \/ Response("lock")
    \/ PublishDone("lock")
    \/ \E t \in {"lock", "refresh"} : Wake(t)

SpecLock == Init /\ [][NextLock]_vars

----------------------------------------------------------------------------
(* SpecDiscovery: discovery publication of the two bridges, called once    *)
(* at startup and then again, one call after the other                     *)

NextDiscovery ==
    \/ DiscoveryCall
    \/ DiscoveryAdvance
    \/ BridgeCall
    \/ BridgeAdvance

SpecDiscovery == Init /\ [][NextDiscovery]_vars

----------------------------------------------------------------------------
(* SpecDevice: the device-info poller and the handle refresh; no command   *)
(* arrives and the device does not answer the call-status poller           *)

NextDevice ==
    \/ \E t \in TaskSet : Start(t)
    \/ Response("device")
    \/ PublishDone("device")
    \/ PollAgain("device")
    \/ Wake("refresh")

SpecDevice == Init /\ [][NextDevice]_vars

----------------------------------------------------------------------------
(* SpecCall: the call-status poller and the handle refresh; no command     *)
(* arrives and the device does not answer the device-info poller           *)

NextCall ==
    \/ \E t \in TaskSet : Start(t)
    \/ Response("call")
    \/ PublishDone("call")
    \/ PollAgain("call")
    \/ \E t \in {"call", "refresh"} : Wake(t)

SpecCall == Init /\ [][NextCall]_vars

----------------------------------------------------------------------------
(* SpecSupervisor: app.lifespan supervising the four tasks; no command     *)
(* arrives, and stop_event may be set at any time                          *)

\* the tasks are created and started, and the lock controller subscribes
Startup ==
    \/ TasksCreated
    \/ \E t \in TaskSet : boot.lifespan # "startup" /\ Start(t)
    \/ LockSubscribed

\* the supervisor's own steps, and the event being set
Supervision == StopSet \/ WaitReturns \/ Shutdown \/ CancelNext

\* the device answers the call-status poller only
NextSupervisor ==
    \/ Startup
    \/ Response("call")
    \/ PublishDone("call")
    \/ \E t \in {"refresh", "call"} : Wake(t)
    \/ Supervision

SpecSupervisor == Init /\ [][NextSupervisor]_vars

----------------------------------------------------------------------------
(* SpecOne: the device and the broker serve one of the three tasks, the    *)
(* one they serve first: the behaviours of SpecLock, SpecDevice and        *)
(* SpecCall together                                                       *)

\* nothing has been delivered to task t yet: no command for the lock
\* controller, no response for the poller
Unserved(t) ==
    IF t = "lock" THEN count.messages = 0
    ELSE pc[t] \in {"start", "req"} /\ local.seen[t] = <<>>

\* the tasks other than t are unserved
Only(t) == \A u \in {"lock", "device", "call"} \ {t} : Unserved(u)

NextOne ==
    \/ \E t \in TaskSet : Start(t)
    \/ LockSubscribed
    \/ Wake("refresh")
    \/ \E tp \in {CommandTopic, OtherTopic} : Only("lock") /\ MessageArrives(tp)
    \/ Only("lock") /\ LockReceive
    \/ Only("lock") /\ Response("lock")
    \/ Only("lock") /\ PublishDone("lock")
    \/ Only("lock") /\ Wake("lock")
    \/ Only("device") /\ Response("device")
    \/ Only("device") /\ PublishDone("device")
    \/ Only("device") /\ PollAgain("device")
    \/ Only("call") /\ Response("call")
    \/ Only("call") /\ PublishDone("call")
    \/ Only("call") /\ PollAgain("call")
    \/ Only("call") /\ Wake("call")

SpecOne == Init /\ [][NextOne]_vars

----------------------------------------------------------------------------
(* SpecTransport: SpecDevice with a broker that may refuse a publish       *)

NextTransport ==
    \/ NextDevice
    \/ PublishFails("device")

SpecTransport == Init /\ [][NextTransport]_vars

----------------------------------------------------------------------------
(* SpecBridge: the legacy MQTTBridge: discovery publication, then the      *)
(* command handler                                                         *)

NextBridge ==
    \/ BridgeCall
    \/ BridgeAdvance
    \/ BridgeRun
    \/ \E tp \in {CommandTopic, OtherTopic} : BridgeMessage(tp)
    \/ BridgeReceive
    \/ BridgeReply
    \/ BridgeWake
    \/ BridgePublished

SpecBridge == Init /\ [][NextBridge]_vars

----------------------------------------------------------------------------
(* RetryingProbe: claims C1-C5, checked under SpecProbe *)

\* n no-value markers
Markers(n) == [i \in 1..n |-> None]

\* the kinds of the attempts made so far
Kinds(h) == {h[i].kind : i \in 1..Len(h)}

\* C1: if the operation first returns a value on attempt k, after any mix of
\* transient errors and empty results on attempts 1..k-1, the consumer has
\* received exactly k-1 no-value markers followed by that value, the
\* generator is at its value yield or has returned (it has not raised), and
\* the operation was invoked exactly k times: no attempt follows the value.
C1_ValueOnAttemptK ==
    \A k \in 1..Len(probe.history) :
        ( /\ probe.history[k].kind = "value"
          /\ \A i \in 1..(k - 1) : probe.history[i].kind \in {"none", "transient"} )
        => /\ Len(probe.history) = k
           /\ probe.calls = k
           /\ probe.yielded = Markers(k - 1) \o <<probe.history[k].v>>
           /\ probe.g.at \in {"yield_result", "stopped"}

\* C1 witness: an error, an empty result, then a value on attempt 3; the
\* sequence has ended
C1_Witness ==
    /\ Len(probe.history) = 3
    /\ probe.history[1].kind = "transient"
    /\ probe.history[2].kind = "none"
    /\ probe.history[3].kind = "value"
    /\ probe.g.at = "stopped"

\* C2 as stated: with delay 0 and a transient error on every attempt, failure
\* is signalled after N-1 no-value markers.
C2_Original_NMinusOneMarkers ==
    ( /\ probe.g.delay = 0
      /\ Kinds(probe.history) = {"transient"}
      /\ probe.g.at = "raised" )
    => probe.yielded = Markers(probe.g.attempts - 1)

\* C2 amended: with delay 0 and a transient error on every attempt, every
\* attempt yields a no-value marker (N in all), the generator never returns
\* quietly, never sleeps, and raises only after the N-th marker; what it
\* raises is the last exception caught.
C2_AlwaysRaisingYieldsNMarkers ==
    ( /\ probe.g.delay = 0
      /\ Kinds(probe.history) = {"transient"} )
    => /\ probe.g.at \in {"calling", "yield_none", "raised"}
       /\ probe.sleeps = 0
       /\ probe.g.at # "calling" => probe.yielded = Markers(Len(probe.history))
       /\ Len(probe.history) = probe.g.attempts => probe.g.at # "calling"
       /\ probe.g.at = "raised" =>
            /\ probe.yielded = Markers(probe.g.attempts)
            /\ probe.calls = probe.g.attempts
            /\ probe.g.out = probe.history[Len(probe.history)].v

\* C2 witness: three attempts, all raising, delay 0, failure signalled
C2_Witness ==
    /\ probe.g.delay = 0
    /\ probe.g.attempts = 3
    /\ Kinds(probe.history) = {"transient"}
    /\ probe.g.at = "raised"

\* C3: an operation that returns None on every attempt and never raises
\* yields one no-value marker per attempt, never makes the generator raise,
\* and the generator returns only after exactly N markers.
C3_AlwaysEmptyEndsQuietly ==
    Kinds(probe.history) = {"none"}
    => /\ probe.g.at \in {"calling", "sleeping", "yield_none", "stopped"}
       /\ probe.g.at # "calling" \/ Len(probe.history) < probe.g.attempts
       /\ probe.g.at \in {"yield_none", "stopped"} =>
            probe.yielded = Markers(Len(probe.history))
       /\ probe.g.at = "stopped" =>
            /\ probe.yielded = Markers(probe.g.attempts)
            /\ probe.calls = probe.g.attempts

\* C3 witness: three empty attempts, the sequence has ended
C3_Witness ==
    /\ probe.g.attempts = 3
    /\ Kinds(probe.history) = {"none"}
    /\ probe.g.at = "stopped"

\* C4: whatever the operation does on each attempt, the consumer receives at
\* most N elements and the operation is invoked at most N times.
C4_AtMostNElements ==
    /\ Len(probe.yielded) <= probe.g.attempts
    /\ probe.calls <= probe.g.attempts
    /\ Len(probe.history) <= probe.calls

\* C4 witness: the bound is met, N = 3 elements after 3 calls
C4_Witness ==
    /\ probe.g.attempts = 3
    /\ Len(probe.yielded) = 3
    /\ probe.calls = 3
    /\ probe.g.at \in {"stopped", "raised"}

\* C5: when all N attempts ended without a value (each an empty result or a
\* transient error), the generator ends by raising exactly when at least one
\* attempt raised a transient error, wherever that attempt was, and it ends
\* only after all N markers were delivered.
C5_FailureIffSomeError ==
    ( /\ Kinds(probe.history) \subseteq {"none", "transient"}
      /\ probe.g.at \in {"stopped", "raised"} )
    => /\ Len(probe.history) = probe.g.attempts
       /\ probe.yielded = Markers(probe.g.attempts)
       /\ probe.g.at = "raised" <=> "transient" \in Kinds(probe.history)

\* C5 witness: the first attempt raised, the last merely returned empty, and
\* the failure is signalled after both markers
C5_Witness ==
    /\ probe.g.attempts = 2
    /\ Len(probe.history) = 2
    /\ probe.history[1].kind = "transient"
    /\ probe.history[2].kind = "none"
    /\ probe.yielded = Markers(2)
    /\ probe.g.at = "raised"

----------------------------------------------------------------------------
(* Deduplicator: claim C6, checked under SpecDedup *)

\* the calls made on topic tp, in order
CallsOn(tp) == SelectSeq(calls, LAMBDA c : c.topic = tp)

\* publishes on topic tp handed to the transport and not yet accepted
AwaitedOn(tp) == Cardinality({t \in TaskSet : inflight[t].topic = tp})

\* C6: of two consecutive publish_if_changed calls on a topic with equal
\* values at most one goes to the transport; a call whose value differs from
\* the cached value always goes to the transport and leaves the cache at that
\* value; and the transport sees one publish per forwarded call, no more.
C6_DedupPerTopic ==
    \A tp \in DedupTopics :
        LET cs == CallsOn(tp) IN
        /\ \A i \in 1..Len(cs) :
             /\ cs[i].value # cs[i].before => cs[i].sent /\ cs[i].after = cs[i].value
             /\ cs[i].value = cs[i].before => ~cs[i].sent /\ cs[i].after = cs[i].before
             /\ i > 1 => cs[i].before = cs[i - 1].after
             /\ (i > 1 /\ cs[i].value = cs[i - 1].value) => ~cs[i].sent
        /\ Len(cs) > 0 => state_cache[tp] = cs[Len(cs)].value
        /\ Len(published[tp]) + AwaitedOn(tp)
             = Len(SelectSeq(cs, LAMBDA c : c.sent))

\* C6 witness: a value, the same value again (suppressed), then a changed
\* value (published) on one topic, all accepted by the broker
C6_Witness ==
    LET cs == CallsOn(LockAvail) IN
    /\ Len(cs) = 3
    /\ cs[1].value = "online" /\ cs[2].value = "online" /\ cs[3].value = "offline"
    /\ published[LockAvail] = <<"online", "offline">>
    /\ AwaitedOn(LockAvail) = 0

----------------------------------------------------------------------------
(* Publishing and the lock controller: claims C7-C10, checked under Spec *)

\* C7: on every state and availability topic, the broker never accepts the
\* same payload twice in a row.
C7_NoAdjacentDuplicates ==
    \A tp \in Topics :
        \A i \in 1..(Len(published[tp]) - 1) : published[tp][i] # published[tp][i + 1]

\* the lock controller has finished a cycle and awaits the next message
CycleDone == cycle.n > 0 /\ pc["lock"] = "wait" /\ inflight["lock"] = NoPub

\* the lock-state payloads of the controller's publishes the broker accepted
\* in the current cycle, in order
CyclePublishes ==
    SelectSeq(cycle.trace, LAMBDA e : e \in {"JAMMED", "UNLOCKED", "LOCKED"})

\* the current cycle's events without the open requests
AfterOpen == SelectSeq(cycle.trace, LAMBDA e : e # "open")

\* C8: a cycle that began with the lock state LOCKED, whose open resolved to
\* opened and whose close resolved to closed, publishes exactly UNLOCKED then
\* LOCKED, with the dwell and the close requests between the two.
C8_UnlockedThenLocked ==
    ( /\ CycleDone
      /\ cycle.cache0 = "LOCKED"
      /\ cycle.open = "opened"
      /\ cycle.close = "closed" )
    => /\ CyclePublishes = <<"UNLOCKED", "LOCKED">>
       /\ Len(AfterOpen) >= 4
       /\ AfterOpen[1] = "UNLOCKED"
       /\ AfterOpen[2] = "dwell"
       /\ \A i \in 3..(Len(AfterOpen) - 1) : AfterOpen[i] = "close"
       /\ AfterOpen[Len(AfterOpen)] = "LOCKED"

\* C9: once the open of a cycle has not resolved to opened (every attempt
\* failed), the controller publishes JAMMED and nothing else, issues no
\* close request, and is back awaiting the next message.
C9_OpenFailurePublishesJammed ==
    cycle.open \in {"jammed", "raised"}
    => /\ pc["lock"] = "wait"
       /\ \A i \in 1..Len(cycle.trace) : cycle.trace[i] \in {"open", "JAMMED"}
       /\ inflight["lock"] \in {NoPub, [topic |-> LockState, value |-> "JAMMED"]}
       /\ inflight["lock"] = NoPub => CyclePublishes = <<"JAMMED">>

\* C10: in a cycle whose open succeeded, once the close is over the
\* controller goes on to a final publish: JAMMED (after UNLOCKED, nothing
\* else) exactly when auto-locking is off and the close did not resolve to
\* closed, LOCKED in every other case.
C10_FinalPublish ==
    (cycle.open = "opened" /\ cycle.close # None)
    => /\ pc["lock"] = "wait"
       /\ inflight["lock"] = NoPub =>
            IF ~autolocking /\ cycle.close # "closed"
            THEN CyclePublishes = <<"UNLOCKED", "JAMMED">>
            ELSE /\ Len(CyclePublishes) > 0
                 /\ CyclePublishes[Len(CyclePublishes)] = "LOCKED"

----------------------------------------------------------------------------
(* The lock controller's sequencing: claim C11, checked under SpecLock *)

\* the current cycle is over: its last publish_if_changed call has returned
CycleFinished ==
    /\ inflight["lock"] = NoPub
    /\ pc["lock"] = "wait"
    /\ \/ cycle.open = "jammed"
       \/ cycle.open = "opened" /\ cycle.close \in {"closed", "jammed"}

\* C11: the controller handles one command at a time. A cycle starts only
\* when a message on the command topic is taken from the stream, one cycle
\* per such message and none for a message on another topic; and it starts
\* only when the cycle before it is over (its final publish call returned),
\* so a command that arrives during a cycle or its dwell waits in the stream.
C11_OneCommandAtATime ==
    [][ /\ Len(queue') < Len(queue) =>
             cycle'.n = cycle.n + (IF Head(queue) = CommandTopic THEN 1 ELSE 0)
        /\ Len(queue') >= Len(queue) => cycle'.n = cycle.n
        /\ cycle'.n # cycle.n => (cycle.n = 0 \/ CycleFinished)
        /\ (pc["lock"] \in {"req", "delay", "dwell"} \/ inflight["lock"] # NoPub)
             => cycle'.n = cycle.n ]_vars

\* C11 witness: the first cycle is in its dwell, UNLOCKED published, and a
\* second command that arrived meanwhile waits in the stream
C11_Witness ==
    /\ cycle.n = 1
    /\ pc["lock"] = "dwell"
    /\ cycle.trace[Len(cycle.trace)] = "dwell"
    /\ published[LockState] = <<"UNLOCKED">>
    /\ queue = <<CommandTopic>>

----------------------------------------------------------------------------
(* AvailabilityTracker: claims C12-C14, checked under SpecDevice *)

\* how often x occurs in sequence q
Count(q, x) == Cardinality({i \in 1..Len(q) : q[i] = x})

\* the number of maximal runs of x in sequence q
Runs(q, x) == Cardinality({i \in 1..Len(q) : q[i] = x /\ (i = 1 \/ q[i - 1] # x)})

\* the device-info poller is inside publish_availability
InAvailability ==
    inflight["device"].topic \in {LockAvail, RingAvail} \/ pc["device"] = "availability_ring"

\* the payloads accepted on topic tp, followed by the one awaited on it
Sent(tp) ==
    published[tp] \o
    IF \E t \in TaskSet : inflight[t].topic = tp
    THEN <<inflight[CHOOSE t \in TaskSet : inflight[t].topic = tp].value>>
    ELSE <<>>

\* C12: consecutive device-info failures publish `offline` once. On each
\* availability topic `offline` is published once per run of consecutive
\* no-value outcomes (once for three in a row), never twice in a row, and
\* once publish_availability(False) has returned the resync flag is set and
\* `offline` is the last payload on both topics.
C12_OfflineOncePerOutage ==
    LET h == local.seen.device IN
    /\ Count(Sent(LockAvail), "offline") = Runs(h, "none")
    /\ ~InAvailability => Count(published[RingAvail], "offline") = Runs(h, "none")
    /\ Count(Sent(RingAvail), "offline") <= Runs(h, "none")
    /\ (Len(h) > 0 /\ h[Len(h)] = "none" /\ ~InAvailability) =>
          /\ reseted_availability
          /\ \A tp \in {LockAvail, RingAvail} :
                published[tp][Len(published[tp])] = "offline"

\* C12 witness: the device answered once, then failed three times in a row;
\* both topics carry online, offline and the flag is set
C12_Witness ==
    /\ local.seen.device = <<"value", "none", "none", "none">>
    /\ published[LockAvail] = <<"online", "offline">>
    /\ published[RingAvail] = <<"online", "offline">>
    /\ reseted_availability
    /\ inflight["device"] = NoPub

\* the device-info poller's loop body is not running: the poller sleeps
\* between polls, awaits the device, or has ended
DeviceAtRest ==
    inflight["device"] = NoPub /\ pc["device"] \in {"sleep", "req", "failed"}

\* C13: every device-info value received while the resync flag is set (the
\* first value, and each value after a no-value outcome) makes the transport
\* publish LOCKED on the lock state topic, whatever the cache holds, and
\* clears the flag; a value received while the flag is clear publishes none.
C13_ResyncForcePublishes ==
    LET h == local.seen.device IN
    DeviceAtRest =>
        /\ Count(published[LockState], "LOCKED") = Runs(h, "value")
        /\ (Len(h) > 0 /\ h[Len(h)] = "value") => ~reseted_availability

\* C14: once the loop body has handled a device-info outcome, the health
\* flag and the availability on both topics agree with that outcome.
C14_HealthFollowsLastOutcome ==
    LET h == local.seen.device IN
    (DeviceAtRest /\ Len(h) > 0) =>
        /\ device_healthy = (h[Len(h)] = "value")
        /\ \A tp \in {LockAvail, RingAvail} :
              published[tp][Len(published[tp])] =
                  AvailabilityPayload(h[Len(h)] = "value")

----------------------------------------------------------------------------
(* CallMonitor: claims C15-C16, checked under SpecCall *)

\* the payload of CallInfo.idle on the ring state topic
IdlePayload == EventTypePayload("idle")

\* C15: every call-status poll that resolves to ring publishes pressed and
\* then released on the ring state topic: there is one pressed per ring, each
\* pressed is directly followed by released and each released directly
\* preceded by pressed, and pressed is the topic's last payload exactly while
\* the poller is in the hold between the two publishes.
C15_RingPressedThenReleased ==
    LET S == Sent(RingState)
        h == local.seen.call
    IN
    /\ Count(S, "pressed") = Count(h, "ring")
    /\ \A i \in 1..Len(S) :
         /\ (S[i] = "pressed" /\ i < Len(S)) => S[i + 1] = "released"
         /\ S[i] = "released" => (i > 1 /\ S[i - 1] = "pressed")
    /\ (Len(S) > 0 /\ S[Len(S)] = "pressed") <=> pc["call"] = "hold"
    /\ pc["call"] = "hold" => h[Len(h)] = "ring"

\* C15 witness: one poll resolved to ring (after a failed attempt that
\* published unknown); pressed and released were accepted in that order
C15_Witness ==
    /\ local.seen.call = <<None, "ring">>
    /\ published[RingState] = <<"unknown", "pressed", "released">>
    /\ inflight["call"] = NoPub

\* C16: consecutive call-status outcomes that resolve to idle publish the
\* idle event-type payload once, and consecutive no-value outcomes publish
\* unknown once: each is published once per run of such outcomes.
C16_IdleAndUnknownOnce ==
    LET S == Sent(RingState)
        h == local.seen.call
    IN
    /\ Count(S, IdlePayload) = Runs(h, "idle")
    /\ Count(S, "unknown") = Runs(h, None)
    /\ \A i \in 1..(Len(S) - 1) : S[i] # S[i + 1]

\* C16 witness: both attempts of the first poll gave no value, the next two
\* polls resolved to idle; the topic received unknown and the idle payload
\* once each
C16_Witness ==
    /\ local.seen.call = <<None, None, "idle", "idle">>
    /\ published[RingState] = <<"unknown", IdlePayload>>
    /\ inflight["call"] = NoPub

----------------------------------------------------------------------------
(* DiscoveryPublisher: claim C17, checked under SpecDiscovery *)

\* C17: once a call of discovery publication has come to its end (other
\* than by a failure of the transport), each entity's config has been
\* published exactly once by that bridge, however many calls followed the
\* first.
C17_DiscoveryExactlyOnce ==
    /\ (boot.dcalls > 0 /\ boot.derror # "MqttError") =>
          \A i \in 1..Len(DiscoveryList) : Count(boot.dconfig, DiscoveryList[i]) = 1
    /\ (boot.bridge.calls > 0 /\ boot.bridge.discovery_sent_once) =>
          \A e \in {"event", "lock"} : Count(boot.bridge.config, e) = 1

----------------------------------------------------------------------------
(* Startup: claim C18, checked under Spec (the tasks as app.lifespan       *)
(* creates them once publish_discovery has returned)                       *)

\* C18: after startup with an empty cache the first payload on the lock
\* state topic is the initial LOCKED, and it is published whatever the
\* device answers: once the device-info poller has handled its first
\* outcome, value or not, LOCKED is on the topic.
C18_InitialLockedUnconditional ==
    /\ published[LockState] # <<>> => published[LockState][1] = "LOCKED"
    /\ (Len(local.seen.device) > 0 /\ DeviceAtRest) =>
          Count(published[LockState], "LOCKED") >= 1

----------------------------------------------------------------------------
(* DeviceLink: claim C19, checked under SpecLock *)

\* C19: no request goes to the device without a connection handle. Every
\* request a task awaits was sent over a handle the refresh loop had
\* installed, and no task has ended on a request over None.
C19_NoRequestWithoutHandle ==
    \A t \in TaskSet :
        /\ pc[t] = "req" => (gen[t].arg # 0 /\ gen[t].arg <= client)
        /\ local.error[t] # "AttributeError"
        /\ pc[t] \notin {"start", "connect", "wait_client", "failed"} => client # 0

\* C19 witness: the two pollers and the lock controller each await a
\* request, the controller's sent after the refresh loop replaced the handle
C19_Witness ==
    /\ \A t \in {"lock", "device", "call"} : pc[t] = "req"
    /\ gen["lock"].arg = 2
    /\ client = 2

----------------------------------------------------------------------------
(* Error handling: claim C20, checked under Spec *)

\* C20: exhaustion is not fatal. No task ends with the transient error its
\* probe raised after the last attempt: the pollers go on polling, and the
\* lock controller, once a cycle's probe is exhausted, publishes JAMMED and
\* awaits the next command.
C20_ExhaustionNotFatal ==
    \A t \in TaskSet : ~(pc[t] = "failed" /\ local.error[t] \in TransientErrors)

----------------------------------------------------------------------------
(* Error handling: claim C21, checked under SpecCall *)

\* the exceptions a response of unexpected shape raises inside the wrapped
\* operation: CallInfo[...] on an unknown status name or data[...] on a
\* missing key (KeyError), a body that does not parse (ParseError)
MismatchErrors == {"KeyError", "ParseError"}

\* C21: a protocol mismatch is a no-value outcome. A response with an
\* unexpected status or an unexpected body shape never raises out of the
\* retry sequence: no task ends with the exception such a response raised.
C21_MismatchIsNoValue ==
    \A t \in TaskSet : ~(pc[t] = "failed" /\ local.error[t] \in MismatchErrors)

----------------------------------------------------------------------------
(* TaskSupervisor: claims C22-C23, checked under SpecSupervisor *)

\* lifespan has gone past its asyncio.wait
PastWait == boot.lifespan \in {"serving", "stopping", "stopped", "failed"}

\* C22: fail-fast. Once the supervisor has gone on past its wait (a task
\* having ended with an error), no task is still running: every remaining
\* task was cancelled and its termination awaited before.
C22_FailFast ==
    PastWait => \A t \in TaskSet : pc[t] \in Done

\* C23: a task that returns without error does not end the supervisor's
\* wait. The supervisor goes past the wait only when a task has ended with
\* an error or every task is done; while tasks have only returned and
\* another still runs, it waits and has cancelled none.
C23_CleanExitKeepsWaiting ==
    /\ PastWait =>
          \/ \E t \in TaskSet : pc[t] = "failed"
          \/ \A t \in TaskSet : pc[t] \in Done
    /\ boot.lifespan = "waiting" => \A t \in TaskSet : pc[t] # "cancelled"

\* C23 witness: stop_event was set after a poll; the refresh loop and the
\* call-status poller have returned, the other two tasks still run, and
\* the supervisor is still in its wait
C23_Witness ==
    /\ boot.lifespan = "waiting"
    /\ local.seen.call # <<>>
    /\ \A t \in {"refresh", "call"} : pc[t] = "returned"
    /\ pc["device"] = "req"
    /\ pc["lock"] = "wait"

----------------------------------------------------------------------------
(* Cancellation: claim C24, checked under SpecSupervisor *)

\* task t can go on only when a message arrives: it is suspended in
\* `async for msg in mqtt.messages` and the stream is empty
AwaitsMessage(t) ==
    t = "lock" /\ pc[t] = "wait" /\ inflight[t] = NoPub /\ queue = <<>>

\* C24: once stop_event is set, every long-running loop (handle refresh,
\* device-info poll, call-status poll, lock command listener) comes to its
\* end without a further inbound message: with the event set, no loop is
\* left in a suspension that only an inbound message ends.
C24_StopEndsEveryLoop ==
    boot.stop_event => \A t \in TaskSet : ~AwaitsMessage(t)

----------------------------------------------------------------------------
(* DeviceLink: claim C25, checked under SpecDevice *)

\* task t issues a request in this step: it comes to await the device, or
\* goes from one attempt's request to the next attempt's
Issues(t) ==
    pc'[t] = "req" /\ (pc[t] # "req" \/ gen'[t].attempt # gen[t].attempt)

\* C25: every request of a device operation goes out over the handle that
\* is DeviceLink's current handle when the request is issued, also when the
\* refresh loop replaced the handle between two attempts of one sequence.
C25_RequestOverCurrentHandle ==
    [][\A t \in {"lock", "device", "call"} :
          Issues(t) => gen'[t].arg = client']_vars

----------------------------------------------------------------------------
(* Topic disjointness: claim C26, checked under SpecOne *)

\* the step is one of task t: its position, generator or awaited publish
\* changes
StepOf(t) ==
    pc'[t] # pc[t] \/ gen'[t] # gen[t] \/ inflight'[t] # inflight[t]

\* C26: a step of the call-status poller changes no cache entry but the
\* ring state topic's and leaves the health flag and the resync flag alone;
\* a step of the device-info poller or of the lock controller never changes
\* the ring state topic's entry, and the poller's publishes go to the
\* topics it writes.
C26_TopicDisjointness ==
    [][ /\ StepOf("call") =>
              /\ \A tp \in Topics \ {RingState} : state_cache'[tp] = state_cache[tp]
              /\ device_healthy' = device_healthy
              /\ reseted_availability' = reseted_availability
              /\ inflight'["call"].topic \in {RingState, None}
        /\ (StepOf("device") \/ StepOf("lock")) =>
              /\ state_cache'[RingState] = state_cache[RingState]
              /\ inflight'["device"].topic # RingState
              /\ inflight'["lock"].topic # RingState ]_vars

\* C26 witness: the call-status poller has polled with both outcomes and
\* published on the ring state topic; the lock state entry, both
\* availability entries and the two flags are as they were at startup
C26_Witness ==
    /\ local.seen.call = <<None, "ring">>
    /\ state_cache[RingState] = "released"
    /\ \A tp \in Topics \ {RingState} : state_cache[tp] = None
    /\ device_healthy /\ reseted_availability

----------------------------------------------------------------------------
(* Cache and broker: claim C27, checked under Spec *)

\* the payload the broker holds for topic tp: the last one it accepted
Held(tp) ==
    IF published[tp] = <<>> THEN None ELSE published[tp][Len(published[tp])]

\* no publish_if_changed call is awaiting the transport
NoneInFlight == \A t \in TaskSet : inflight[t] = NoPub

\* C27: whenever no publish is in flight, the cache entry of every topic is
\* the payload of the last publish the transport accepted for that topic.
C27_CacheAgreesWithBroker ==
    NoneInFlight => \A tp \in Topics : state_cache[tp] = Held(tp)

----------------------------------------------------------------------------
(* The dwell: claim C28, checked under Spec *)

\* the controller is in the dwell of a cycle: its UNLOCKED was accepted and
\* it sleeps before the close (line 144)
InDwell ==
    /\ pc["lock"] = "dwell"
    /\ Len(CyclePublishes) > 0
    /\ CyclePublishes[Len(CyclePublishes)] = "UNLOCKED"

\* C28: during the dwell the last payload on the lock state topic stays
\* UNLOCKED: no other task publishes a lock state before the controller
\* publishes the cycle's final state.
C28_UnlockedThroughDwell ==
    InDwell => Held(LockState) = "UNLOCKED"

----------------------------------------------------------------------------
(* Lock cycle liveness: claim C29, checked under SpecLock *)

\* C29: every command received is followed by the lock state topic holding
\* LOCKED or JAMMED with the controller awaiting the next command, whatever
\* the door-control attempts give. So no cycle leaves the controller
\* terminated, from where nothing follows; and when a cycle is over the
\* topic holds LOCKED or JAMMED.
C29_CycleComesToItsEnd ==
    /\ ~(cycle.n > 0 /\ pc["lock"] = "failed")
    /\ (cycle.n > 0 /\ CycleFinished) => Held(LockState) \in {"LOCKED", "JAMMED"}

----------------------------------------------------------------------------
(* DeviceLink: claim C30, checked under SpecLock *)

\* C30: once a handle is installed the handle is never None again. The
\* handle changes only in an iteration of the refresh loop, which puts a
\* newly constructed handle in the place of the old one in one step; no
\* step of another task changes it.
C30_HandleNeverAbsentAgain ==
    [][ /\ client # 0 => client' # 0
        /\ client' # client =>
              /\ count'.refresh = count.refresh + 1
              /\ client' = count'.refresh
              /\ client' > client
              /\ \A t \in {"lock", "device", "call"} : ~StepOf(t) ]_vars

\* C30 witness: the refresh loop has replaced the first handle by the
\* second while the device-info poller's request over the first is still
\* awaited, and the lock controller is in a cycle
C30_Witness ==
    /\ client = 2
    /\ count.refresh = 2
    /\ pc["device"] = "req" /\ gen["device"].arg = 1
    /\ cycle.n = 1 /\ pc["lock"] = "req"

----------------------------------------------------------------------------
(* CallMonitor: claim C31, checked under SpecCall *)

\* the number of `ring` outcomes at the end of sequence h
TrailingRings(h) ==
    LET others == {i \in 1..Len(h) : h[i] # "ring"} IN
    Len(h) - (IF others = {} THEN 0
              ELSE CHOOSE i \in others : \A j \in others : j <= i)

\* k pressed/released pairs
Pairs(k) == [i \in 1..(2 * k) |-> IF i % 2 = 1 THEN "pressed" ELSE "released"]

\* the last n elements of sequence q
LastN(q, n) == SubSeq(q, Len(q) - n + 1, Len(q))

\* the call-status poller is between two polls or awaits the device
CallAtRest == inflight["call"] = NoPub /\ pc["call"] \in {"sleep", "req"}

\* C31: k consecutive call-status polls that each resolve to ring put
\* exactly k pressed/released pairs on the ring state topic, in strict
\* alternation: after the k-th poll the topic's last 2k payloads are the k
\* pairs and its last value is released, and during the hold of the k-th
\* poll its press has been published after the k-1 pairs before it (the
\* cache never suppresses it). Between polls there are as many presses
\* and as many releases on the topic as polls resolved to ring.
C31_EveryRingPressesAndReleases ==
    LET P == published[RingState]
        k == TrailingRings(local.seen.call)
    IN
    /\ CallAtRest =>
          /\ Count(P, "pressed") = Count(local.seen.call, "ring")
          /\ Count(P, "released") = Count(local.seen.call, "ring")
    /\ k > 0 =>
          /\ CallAtRest =>
                /\ Len(P) >= 2 * k
                /\ LastN(P, 2 * k) = Pairs(k)
                /\ Held(RingState) = "released"
          /\ (pc["call"] = "hold" /\ inflight["call"] = NoPub) =>
                /\ Len(P) >= 2 * k - 1
                /\ LastN(P, 2 * k - 1) = Pairs(k - 1) \o <<"pressed">>

\* C31 witness: three polls in a row resolved to ring; the topic received
\* three pressed/released pairs and holds released
C31_Witness ==
    /\ local.seen.call = <<"ring", "ring", "ring">>
    /\ published[RingState] = Pairs(3)
    /\ CallAtRest

----------------------------------------------------------------------------
(* The legacy bridge: claim C32, checked under SpecBridge *)

\* C32: in the legacy bridge UNLOCKED is published for a command only when
\* ensure_door_state(open) resolved to unlocked; for a command whose
\* retry_count door requests all failed (it resolved to jammed) neither
\* UNLOCKED nor the LOCKED after it is published.
C32_JammedPublishesNothing ==
    \A i \in 1..Len(boot.bridge.cmds) :
        LET c == boot.bridge.cmds[i] IN
        /\ Count(c.pubs, "UNLOCKED") > 0 => c.result = "UNLOCKED"
        /\ c.result = "JAMMED" => c.pubs = <<>>

====
